---- MODULE Spec2Model ----
(***************************************************************************)
(* Model of the alice-lg routes store (RoutesStore: NewRoutesStore, Start, *)
(* init, update, Stats, Lookup), of the global prefix lookup endpoint and  *)
(* of the birdwatcher neighbours parser.                                   *)
(*                                                                         *)
(* A thread's pc names the statement it is executing; the effect of the    *)
(* statement lands with the step that leaves it.  The store holds no lock, *)
(* so the steps of different threads interleave freely.                    *)
(***************************************************************************)
EXTENDS Integers, Sequences, FiniteSets, TLC

\* ------------------------------------------------------------------ bounds

\* Number of configured sources (route servers).
NumSources == 2

\* Number of calls (Start, Stats, or a lookup request) made on the store over
\* a run; each runs in a goroutine of its own.
MaxCalls == 2

Sources == 1..NumSources
Threads == 1..MaxCalls

\* ------------------------------------------------------------ store states

STATE_INIT == 0
STATE_READY == 1
STATE_UPDATING == 2
STATE_ERROR == 3

\* The zero time.Time and the nil error.
ZeroTime == 0
NoError == "nil"

\* Helper: stateToString
stateToString(state) ==
    CASE state = STATE_INIT -> "INIT"
      [] state = STATE_READY -> "READY"
      [] state = STATE_UPDATING -> "UPDATING"
      [] state = STATE_ERROR -> "ERROR"
      [] OTHER -> "INVALID"

\* api.RoutesResponse{}: the zero value, no routes.
EmptyRoutesResponse == [Imported |-> <<>>, Filtered |-> <<>>]

\* A route, reduced to the field the store's queries read.
Route(network) == [Network |-> network]

\* The route table a source's backend serves: the first route server holds
\* the route to 10.0.0.0/24, the others do not.
RouteTable(s) ==
    IF s = 1
       THEN [Imported |-> <<Route("10.0.0.0/24")>>,
             Filtered |-> <<>>]
       ELSE [Imported |-> <<Route("192.0.2.0/24"), Route("198.51.100.0/24")>>,
             Filtered |-> <<Route("203.0.113.0/24")>>]

\* What AllRoutes of source s can answer: its route table, or an error
\* together with the zero RoutesResponse.
AllRoutesResults(s) ==
    { [routes |-> RouteTable(s), err |-> NoError],
      [routes |-> EmptyRoutesResponse, err |-> "timeout"] }

\* SourceConfig of a source, reduced to its display name.
SourceConfig(s) == [Name |-> "rs" \o ToString(s)]

\* ---------------------------------------------------------------- variables

VARIABLES
    routesMap,    \* RoutesStore.routesMap: source -> RoutesResponse
    statusMap,    \* RoutesStore.statusMap: source -> StoreStatus
    configMap,    \* RoutesStore.configMap: source -> SourceConfig
    now,          \* the wall clock: the value of the last time.Now()
    fatal,        \* the Go runtime has thrown on a concurrent map access
    pc,           \* per thread: the statement it is at
    todo,         \* per thread: the keys its range loop has yet to yield
    cur,          \* per thread: the loop variable source (0 outside the loop body)
    routes,       \* per thread: the local variable routes (zero outside its scope)
    err,          \* per thread: the local variable err (nil outside its scope)
    stats,        \* per thread: Stats' totals and rsStats, its result once returned
    dirty,        \* per thread (history): a map entry was written since its Stats call began
    lookup,       \* the last response of the global lookup endpoint
    bird,         \* parseNeighbours: the ClientResponse it is given
    parsePc,      \* parseNeighbours: the statement it is at
    parseTodo,    \* parseNeighbours: the protocol ids its range loop has yet to yield
    neighbours,   \* parseNeighbours: the local variable neighbours
    parsed,       \* parseNeighbours: what it returned
    data,         \* parseBgpCommunities: the value it is given
    commPc,       \* parseBgpCommunities: the statement it is at
    ldata,        \* parseBgpCommunities: the elements its range loop has yet to yield
    communities,  \* parseBgpCommunities: the local variable communities
    commParsed    \* parseBgpCommunities: what it returned

storeVars == <<routesMap, statusMap, configMap>>
threadVars == <<pc, todo, cur, routes, err, stats, dirty>>
commVars == <<data, commPc, ldata, communities, commParsed>>
parseVars == <<bird, parsePc, parseTodo, neighbours, parsed, commVars>>
vars == <<routesMap, statusMap, configMap, now, fatal, pc, todo, cur, routes,
          err, stats, dirty, lookup, bird, parsePc, parseTodo, neighbours, parsed,
          data, commPc, ldata, communities, commParsed>>

NoStats == [TotalRoutes |-> [Imported |-> 0, Filtered |-> 0], RouteServers |-> <<>>]
NoResponse == [kind |-> "none"]
NoPayload == [protocols |-> [t |-> "absent", v |-> <<>>]]
NotParsed == [kind |-> "none", neighbours |-> <<>>, err |-> NoError]
NoData == [t |-> "absent", v |-> <<>>]
NoCommunities == [kind |-> "none", communities |-> <<>>]

\* No communities field is being decoded.
CommOff ==
    /\ data = NoData
    /\ commPc = "off"
    /\ ldata = <<>>
    /\ communities = <<>>
    /\ commParsed = NoCommunities

\* NewRoutesStore: one entry per configured source in each of the three maps.
NewRoutesStore ==
    /\ configMap = [s \in Sources |-> SourceConfig(s)]
    /\ routesMap = [s \in Sources |-> EmptyRoutesResponse]
    /\ statusMap = [s \in Sources |->
                      [LastRefresh |-> ZeroTime, LastError |-> NoError, State |-> STATE_INIT]]

InitStore ==
    /\ NewRoutesStore
    /\ now = ZeroTime
    /\ fatal = FALSE
    /\ pc = [t \in Threads |-> "idle"]
    /\ todo = [t \in Threads |-> {}]
    /\ cur = [t \in Threads |-> 0]
    /\ routes = [t \in Threads |-> EmptyRoutesResponse]
    /\ err = [t \in Threads |-> NoError]
    /\ stats = [t \in Threads |-> NoStats]
    /\ dirty = [t \in Threads |-> FALSE]
    /\ lookup = NoResponse

\* The store's runs: no payload is being parsed.
Init ==
    /\ InitStore
    /\ bird = NoPayload
    /\ parsePc = "off"
    /\ parseTodo = {}
    /\ neighbours = <<>>
    /\ parsed = NotParsed
    /\ CommOff

\* ------------------------------------------------------------ map accesses

\* The statements that write an entry of statusMap, and of routesMap.
StatusWritePcs == {"setUpdating", "setError", "setReady"}
RoutesWritePcs == {"setRoutes"}
\* The statements that read statusMap, and that read (range over) routesMap.
StatusReadPcs == {"loop", "statsStatus"}
RoutesReadPcs == {"loop", "statsLoop"}

\* The statements of update.
UpdatePcs == {"loop", "setUpdating", "fetch", "setError", "setRoutes", "setReady"}

Writing(t) == pc[t] \in StatusWritePcs \cup RoutesWritePcs
InStats(t) == pc[t] \in {"statsLoop", "statsStatus"}

\* Two threads are in the same map at once and one of them writes it.
MapRace(t, u) ==
    /\ t # u
    /\ \/ pc[t] \in StatusWritePcs /\ pc[u] \in StatusWritePcs \cup StatusReadPcs
       \/ pc[t] \in RoutesWritePcs /\ pc[u] \in RoutesWritePcs \cup RoutesReadPcs

\* History: a write by thread t makes stale every Stats call in progress or
\* just returned.
Dirtied(t) ==
    [u \in Threads |-> dirty[u] \/ (u # t /\ (InStats(u) \/ pc[u] = "returned"))]

\* ------------------------------------------------------------------ Start

\* Start: go self.init(); init begins with update(), whose range loop
\* iterates the keys of routesMap.
Start(t) ==
    /\ ~fatal
    /\ pc[t] = "idle"
    /\ pc' = [pc EXCEPT ![t] = "loop"]
    /\ todo' = [todo EXCEPT ![t] = DOMAIN routesMap]
    /\ UNCHANGED <<storeVars, now, fatal, cur, routes, err, stats, dirty, lookup, parseVars>>

\* update: the range loop yields the next source (in any order) and the
\* state check skips a source that is UPDATING.
UpdateNext(t) ==
    /\ ~fatal
    /\ pc[t] = "loop"
    /\ todo[t] # {}
    /\ \E s \in todo[t] :
         /\ todo' = [todo EXCEPT ![t] = @ \ {s}]
         /\ IF statusMap[s].State = STATE_UPDATING
               THEN pc' = pc /\ cur' = cur
               ELSE /\ pc' = [pc EXCEPT ![t] = "setUpdating"]
                    /\ cur' = [cur EXCEPT ![t] = s]
    /\ UNCHANGED <<storeVars, now, fatal, routes, err, stats, dirty, lookup, parseVars>>

\* update: Set update state.
SetUpdating(t) ==
    /\ ~fatal
    /\ pc[t] = "setUpdating"
    /\ statusMap' = [statusMap EXCEPT ![cur[t]] =
                       [LastRefresh |-> ZeroTime, LastError |-> NoError,
                        State |-> STATE_UPDATING]]
    /\ pc' = [pc EXCEPT ![t] = "fetch"]
    /\ dirty' = Dirtied(t)
    /\ UNCHANGED <<routesMap, configMap, now, fatal, todo, cur, routes, err, stats, lookup, parseVars>>

\* update: routes, err := source.AllRoutes() returns.
AllRoutes(t) ==
    /\ ~fatal
    /\ pc[t] = "fetch"
    /\ \E r \in AllRoutesResults(cur[t]) :
         /\ routes' = [routes EXCEPT ![t] = r.routes]
         /\ err' = [err EXCEPT ![t] = r.err]
         /\ pc' = [pc EXCEPT ![t] = IF r.err # NoError THEN "setError" ELSE "setRoutes"]
    /\ UNCHANGED <<storeVars, now, fatal, todo, cur, stats, dirty, lookup, parseVars>>

\* Mutant of SetError: the routes returned along with the error are stored
\* before err is looked at.
SetError_StoresRoutes(t) ==
    /\ ~fatal
    /\ pc[t] = "setError"
    /\ now' = now + 1
    /\ routesMap' = [routesMap EXCEPT ![cur[t]] = routes[t]]
    /\ statusMap' = [statusMap EXCEPT ![cur[t]] =
                       [LastRefresh |-> now', LastError |-> err[t],
                        State |-> STATE_ERROR]]
    /\ pc' = [pc EXCEPT ![t] = "loop"]
    /\ routes' = [routes EXCEPT ![t] = EmptyRoutesResponse]
    /\ err' = [err EXCEPT ![t] = NoError]
    /\ cur' = [cur EXCEPT ![t] = 0]
    /\ dirty' = Dirtied(t)
    /\ UNCHANGED <<configMap, fatal, todo, stats, lookup, parseVars>>

\* Mutant of SetError: the error branch leaves the loop (break) instead of
\* continuing with the next source.
SetError_Breaks(t) ==
    /\ ~fatal
    /\ pc[t] = "setError"
    /\ now' = now + 1
    /\ statusMap' = [statusMap EXCEPT ![cur[t]] =
                       [LastRefresh |-> now', LastError |-> err[t],
                        State |-> STATE_ERROR]]
    /\ pc' = [pc EXCEPT ![t] = "loop"]
    /\ todo' = [todo EXCEPT ![t] = {}]
    /\ routes' = [routes EXCEPT ![t] = EmptyRoutesResponse]
    /\ err' = [err EXCEPT ![t] = NoError]
    /\ cur' = [cur EXCEPT ![t] = 0]
    /\ dirty' = Dirtied(t)
    /\ UNCHANGED <<routesMap, configMap, fatal, stats, lookup, parseVars>>

\* update: the error branch records the error and continues with the loop.
SetError(t) ==
    /\ ~fatal
    /\ pc[t] = "setError"
    /\ now' = now + 1
    /\ statusMap' = [statusMap EXCEPT ![cur[t]] =
                       [LastRefresh |-> now', LastError |-> err[t],
                        State |-> STATE_ERROR]]
    /\ pc' = [pc EXCEPT ![t] = "loop"]
    /\ routes' = [routes EXCEPT ![t] = EmptyRoutesResponse]
    /\ err' = [err EXCEPT ![t] = NoError]
    /\ cur' = [cur EXCEPT ![t] = 0]
    /\ dirty' = Dirtied(t)
    /\ UNCHANGED <<routesMap, configMap, fatal, todo, stats, lookup, parseVars>>

\* update: Update data.
SetRoutes(t) ==
    /\ ~fatal
    /\ pc[t] = "setRoutes"
    /\ routesMap' = [routesMap EXCEPT ![cur[t]] = routes[t]]
    /\ pc' = [pc EXCEPT ![t] = "setReady"]
    /\ dirty' = Dirtied(t)
    /\ UNCHANGED <<statusMap, configMap, now, fatal, todo, cur, routes, err, stats, lookup, parseVars>>

\* update: Update state.
SetReady(t) ==
    /\ ~fatal
    /\ pc[t] = "setReady"
    /\ now' = now + 1
    /\ statusMap' = [statusMap EXCEPT ![cur[t]] =
                       [LastRefresh |-> now', LastError |-> NoError,
                        State |-> STATE_READY]]
    /\ pc' = [pc EXCEPT ![t] = "loop"]
    /\ routes' = [routes EXCEPT ![t] = EmptyRoutesResponse]
    /\ err' = [err EXCEPT ![t] = NoError]
    /\ cur' = [cur EXCEPT ![t] = 0]
    /\ dirty' = Dirtied(t)
    /\ UNCHANGED <<routesMap, configMap, fatal, todo, stats, lookup, parseVars>>

\* ------------------------------------------------------------------ Stats

\* Stats begins: zero totals, an empty rsStats, and the range loop over the
\* keys of routesMap.
EnterStats(t) ==
    /\ pc' = [pc EXCEPT ![t] = "statsLoop"]
    /\ todo' = [todo EXCEPT ![t] = DOMAIN routesMap]
    /\ stats' = [stats EXCEPT ![t] = NoStats]
    /\ dirty' = [dirty EXCEPT ![t] = FALSE]
    /\ UNCHANGED <<storeVars, now, fatal, cur, routes, err, lookup, parseVars>>

\* init: update's loop is over and update has returned; init goes on to
\* self.Stats().Log().
InitStats(t) ==
    /\ ~fatal
    /\ pc[t] = "loop"
    /\ todo[t] = {}
    /\ EnterStats(t)

\* Stats called on the store from another goroutine (a request handler).
StatsCall(t) ==
    /\ ~fatal
    /\ pc[t] = "idle"
    /\ EnterStats(t)

\* Stats: the range loop yields the next source and its cached routes.
StatsNext(t) ==
    /\ ~fatal
    /\ pc[t] = "statsLoop"
    /\ todo[t] # {}
    /\ \E s \in todo[t] :
         /\ todo' = [todo EXCEPT ![t] = @ \ {s}]
         /\ cur' = [cur EXCEPT ![t] = s]
         /\ routes' = [routes EXCEPT ![t] = routesMap[s]]
    /\ pc' = [pc EXCEPT ![t] = "statsStatus"]
    /\ UNCHANGED <<storeVars, now, fatal, err, stats, dirty, lookup, parseVars>>

\* Mutant of RouteServerStats: the two counts are taken from the wrong lists.
RouteServerStats_SwappedCounts(s, rts, status) ==
    [Name |-> configMap[s].Name,
     Routes |-> [Filtered |-> Len(rts.Imported), Imported |-> Len(rts.Filtered)],
     State |-> stateToString(status.State),
     UpdatedAt |-> status.LastRefresh]

\* The RouteServerStats Stats builds for a source from the routes and the
\* status it read.
RouteServerStats(s, rts, status) ==
    [Name |-> configMap[s].Name,
     Routes |-> [Filtered |-> Len(rts.Filtered), Imported |-> Len(rts.Imported)],
     State |-> stateToString(status.State),
     UpdatedAt |-> status.LastRefresh]

\* Mutant of StatsStatus: Stats marks a source it finds never refreshed as
\* UPDATING.
StatsStatus_MarksUpdating(t) ==
    /\ ~fatal
    /\ pc[t] = "statsStatus"
    /\ stats' = [stats EXCEPT ![t] =
         [TotalRoutes |->
            [Imported |-> @.TotalRoutes.Imported + Len(routes[t].Imported),
             Filtered |-> @.TotalRoutes.Filtered + Len(routes[t].Filtered)],
          RouteServers |->
            Append(@.RouteServers, RouteServerStats(cur[t], routes[t], statusMap[cur[t]]))]]
    /\ statusMap' = IF statusMap[cur[t]].State = STATE_INIT
                       THEN [statusMap EXCEPT ![cur[t]].State = STATE_UPDATING]
                       ELSE statusMap
    /\ pc' = [pc EXCEPT ![t] = "statsLoop"]
    /\ routes' = [routes EXCEPT ![t] = EmptyRoutesResponse]
    /\ cur' = [cur EXCEPT ![t] = 0]
    /\ UNCHANGED <<routesMap, configMap, now, fatal, todo, err, dirty, lookup, parseVars>>

\* Stats: reads the source's status, adds to the totals, appends the summary.
StatsStatus(t) ==
    /\ ~fatal
    /\ pc[t] = "statsStatus"
    /\ stats' = [stats EXCEPT ![t] =
         [TotalRoutes |->
            [Imported |-> @.TotalRoutes.Imported + Len(routes[t].Imported),
             Filtered |-> @.TotalRoutes.Filtered + Len(routes[t].Filtered)],
          RouteServers |->
            Append(@.RouteServers, RouteServerStats(cur[t], routes[t], statusMap[cur[t]]))]]
    /\ pc' = [pc EXCEPT ![t] = "statsLoop"]
    /\ routes' = [routes EXCEPT ![t] = EmptyRoutesResponse]
    /\ cur' = [cur EXCEPT ![t] = 0]
    /\ UNCHANGED <<storeVars, now, fatal, todo, err, dirty, lookup, parseVars>>

\* Stats: the loop is over, storeStats is returned.
StatsReturn(t) ==
    /\ ~fatal
    /\ pc[t] = "statsLoop"
    /\ todo[t] = {}
    /\ pc' = [pc EXCEPT ![t] = "returned"]
    /\ UNCHANGED <<storeVars, now, fatal, todo, cur, routes, err, stats, dirty, lookup, parseVars>>

\* The caller is done with the StoreStats (init logs it) and its goroutine ends.
Exit(t) ==
    /\ ~fatal
    /\ pc[t] = "returned"
    /\ pc' = [pc EXCEPT ![t] = "exited"]
    /\ stats' = [stats EXCEPT ![t] = NoStats]
    /\ dirty' = [dirty EXCEPT ![t] = FALSE]
    /\ UNCHANGED <<storeVars, now, fatal, todo, cur, routes, err, lookup, parseVars>>

\* ----------------------------------------------------------------- Lookup

\* RoutesStore.Lookup: the result of the lookup of a prefix.
Lookup(prefix) == <<>>

\* The query strings a request can carry in q ("" stands for a missing or
\* empty parameter as well).
Queries == {"", "1", "10.0.0.0/24", "192.0.2.0/24"}

\* apiLookupPrefixGlobal: validates q, then answers with the store's Lookup.
ApiLookupPrefixGlobal(t) ==
    /\ ~fatal
    /\ pc[t] = "idle"
    /\ \E q \in Queries :
         lookup' = IF q = "" THEN [kind |-> "error", q |-> q]
                   ELSE IF Len(q) < 2 THEN [kind |-> "error", q |-> q]
                   ELSE [kind |-> "ok", q |-> q, Routes |-> Lookup(q)]
    /\ pc' = [pc EXCEPT ![t] = "exited"]
    /\ UNCHANGED <<storeVars, now, fatal, todo, cur, routes, err, stats, dirty, parseVars>>

\* ------------------------------------------------------------ runtime fault

\* The maps are plain Go maps: the runtime may detect a write that runs
\* concurrently with another access of the same map and end the process.
MapFault ==
    /\ ~fatal
    /\ \E t, u \in Threads : MapRace(t, u)
    /\ fatal' = TRUE
    /\ UNCHANGED <<storeVars, now, threadVars, lookup, parseVars>>

\* ------------------------------------------------ birdwatcher: the parser

\* Number of protocols (neighbours) a payload can hold.
MaxProtocols == 2

\* A decoded JSON scalar, as the interface{} the parser is handed: its
\* dynamic type, and its value as a string or as a number in tenths (a
\* float64).  Absent is the nil interface a missing key yields.
Absent == [t |-> "absent", s |-> "", n |-> 0]
Str(x) == [t |-> "string", s |-> x, n |-> 0]
Num(tenths) == [t |-> "number", s |-> "", n |-> tenths]

\* int(x.(float64)): the conversion truncates.
IntOf(value) == value.n \div 10

\* A protocol as birdwatcher renders it when nothing is missing.
WellFormedProtocol(i) ==
    [neighbor_address |-> Str("10.0.0." \o ToString(i)),
     neighbor_as |-> Num(650000 + 10 * i + 5),
     state |-> Str("up"),
     description |-> Str("peer " \o ToString(i)),
     state_changed |-> Str("2020-01-01 00:00:00"),
     last_error |-> Str("Hold timer expired"),
     routes |-> [t |-> "map", imported |-> Num(120), exported |-> Num(30),
                 filtered |-> Num(17), preferred |-> Num(100)]]

\* The protocols a payload can carry under id i: the well-formed one, or it
\* with one field missing or of another type.
ProtocolShapes(i) ==
    LET p == WellFormedProtocol(i) IN
      { p,
        [p EXCEPT !.last_error = Absent],
        [p EXCEPT !.state_changed = Absent],
        [p EXCEPT !.neighbor_address = Absent],
        [p EXCEPT !.neighbor_as = Str("65001")],
        [p EXCEPT !.state = Absent],
        [p EXCEPT !.routes.t = "absent"] }

\* The payloads: a protocols map over some of the ids, or no protocols key.
Payloads ==
    { [protocols |-> [t |-> "map", v |-> f]] :
        f \in UNION { { g \in [I -> UNION { ProtocolShapes(i) : i \in I }] :
                          \A i \in I : g[i] \in ProtocolShapes(i) } :
                      I \in SUBSET (1..MaxProtocols) } }
    \cup { NoPayload }

\* The instant of the parse (time.Since reads the clock) and the instant the
\* one well-formed timestamp of the payloads denotes.
ParseClock == 1000
StateChangedAt == 400

\* Convert server time string to time (layout SERVER_TIME_SHORT, in the
\* configured timezone): a value that is no string is the zero time without
\* an error; a string the layout does not match is the zero time and an error.
parseServerTime(value) ==
    IF value.t # "string" THEN [time |-> ZeroTime, err |-> NoError]
    ELSE IF value.s = "2020-01-01 00:00:00" THEN [time |-> StateChangedAt, err |-> NoError]
    ELSE [time |-> ZeroTime, err |-> "parsing time"]

\* Parse neighbour uptime: the error is dropped.
parseRelativeServerTime(uptime) == ParseClock - parseServerTime(uptime).time

\* Assert string, provide default
mustString(value, fallback) == IF value.t = "string" THEN value.s ELSE fallback

\* The type assertions of one loop iteration that have no ", ok": each panics
\* when the value is not of the asserted type.
AssertionsHold(protocol) ==
    /\ protocol.routes.t = "map"
    /\ protocol.neighbor_address.t = "string"
    /\ protocol.neighbor_as.t = "number"
    /\ protocol.state.t = "string"
    /\ protocol.description.t = "string"
    /\ protocol.routes.imported.t = "number"
    /\ protocol.routes.exported.t = "number"
    /\ protocol.routes.filtered.t = "number"
    /\ protocol.routes.preferred.t = "number"

\* The api.Neighbour built from a protocol.
Neighbour(protocolId, protocol) ==
    [Id |-> protocolId,
     Address |-> protocol.neighbor_address.s,
     Asn |-> IntOf(protocol.neighbor_as),
     State |-> protocol.state.s,
     Description |-> protocol.description.s,
     RoutesReceived |-> IntOf(protocol.routes.imported),
     RoutesExported |-> IntOf(protocol.routes.exported),
     RoutesFiltered |-> IntOf(protocol.routes.filtered),
     RoutesPreferred |-> IntOf(protocol.routes.preferred),
     Uptime |-> parseRelativeServerTime(protocol.state_changed),
     LastError |-> mustString(protocol.last_error, ""),
     Details |-> protocol]

\* sort.Sort(neighbours): the neighbours in the order of their identifiers
\* (the protocol ids of the payloads are numbered).
RECURSIVE SortNeighbours(_)
SortNeighbours(ns) ==
    IF ns = <<>> THEN <<>>
    ELSE LET m == CHOOSE i \in 1..Len(ns) : \A j \in 1..Len(ns) : ns[i].Id <= ns[j].Id
             rest == [k \in 1..(Len(ns) - 1) |-> IF k < m THEN ns[k] ELSE ns[k + 1]]
         IN <<ns[m]>> \o SortNeighbours(rest)

storeSide == <<storeVars, now, fatal, threadVars, lookup, commVars>>

\* A panic unwinds parseNeighbours: nothing is returned.
Panic ==
    /\ parsePc' = "panicked"
    /\ parseTodo' = {}
    /\ neighbours' = <<>>
    /\ UNCHANGED <<bird, parsed, storeSide>>

\* parseNeighbours: protocols := bird["protocols"].(map[string]interface{})
ParseBegin ==
    /\ parsePc = "start"
    /\ IF bird.protocols.t = "map"
          THEN /\ parsePc' = "loop"
               /\ parseTodo' = DOMAIN bird.protocols.v
               /\ neighbours' = <<>>
               /\ UNCHANGED <<bird, parsed, storeSide>>
          ELSE Panic

\* parseNeighbours: one iteration of the loop over the protocols map, which
\* yields its keys in any order.
ParseProtocol ==
    /\ parsePc = "loop"
    /\ parseTodo # {}
    /\ \E protocolId \in parseTodo :
         LET protocol == bird.protocols.v[protocolId] IN
           IF AssertionsHold(protocol)
              THEN /\ neighbours' = Append(neighbours, Neighbour(protocolId, protocol))
                   /\ parseTodo' = parseTodo \ {protocolId}
                   /\ UNCHANGED <<bird, parsePc, parsed, storeSide>>
              ELSE Panic

\* parseNeighbours: sort.Sort(neighbours); return neighbours, nil
ParseReturn ==
    /\ parsePc = "loop"
    /\ parseTodo = {}
    /\ parsed' = [kind |-> "returned", neighbours |-> SortNeighbours(neighbours),
                  err |-> NoError]
    /\ parsePc' = "returned"
    /\ neighbours' = <<>>
    /\ UNCHANGED <<bird, parseTodo, storeSide>>

\* parseNeighbours on any of the payloads.
ParseInit ==
    /\ InitStore
    /\ bird \in Payloads
    /\ parsePc = "start"
    /\ parseTodo = {}
    /\ neighbours = <<>>
    /\ parsed = NotParsed
    /\ CommOff

ParseNext ==
    \/ ParseBegin
    \/ ParseProtocol
    \/ ParseReturn

ParseSpec == ParseInit /\ [][ParseNext]_vars

\* ------------------------------------- birdwatcher: the communities parser

\* Number of communities a field can hold, and of values one community can
\* hold.
MaxCommunities == 2
MaxCommunityLen == 2

\* The values found inside a community: JSON numbers (whole ones and one
\* with a fraction) and a string.
CommunityValues == { Num(650000), Num(1000), Num(1005), Str("no-export") }

\* The sequences over S of at most n elements.
SeqsUpTo(S, n) == UNION { [1..k -> S] : k \in 0..n }

\* The elements of a communities list: a list of values, or a string such
\* as "65000:100" in place of the list.
CommunityElements ==
    { [t |-> "list", v |-> c] : c \in SeqsUpTo(CommunityValues, MaxCommunityLen) }
    \cup { [t |-> "string", v |-> <<>>] }

\* The shapes of bgpData["communities"]: the key is absent (nil), the value
\* is a string, or it is a list.
CommunityData ==
    { NoData, [t |-> "string", v |-> <<>>] }
    \cup { [t |-> "list", v |-> l] : l \in SeqsUpTo(CommunityElements, MaxCommunities) }

\* A community from the values of a list that holds only numbers.
Community(cdata) == [j \in 1..Len(cdata) |-> IntOf(cdata[j])]

parserSide == <<storeVars, now, fatal, threadVars, lookup,
                bird, parsePc, parseTodo, neighbours, parsed>>

\* A panic unwinds parseBgpCommunities: nothing is returned.
CommPanic ==
    /\ commPc' = "panicked"
    /\ ldata' = <<>>
    /\ communities' = <<>>
    /\ UNCHANGED <<data, commParsed, parserSide>>

\* parseBgpCommunities: ldata, ok := data.([]interface{}); without a list
\* the empty set is returned.
CommBegin ==
    /\ commPc = "start"
    /\ IF data.t = "list"
          THEN /\ commPc' = "loop"
               /\ ldata' = data.v
               /\ communities' = <<>>
               /\ UNCHANGED <<data, commParsed, parserSide>>
          ELSE /\ commPc' = "returned"
               /\ commParsed' = [kind |-> "returned", communities |-> <<>>]
               /\ UNCHANGED <<data, ldata, communities, parserSide>>

\* parseBgpCommunities: one iteration of the loop over ldata, the loop over
\* cdata included; c.([]interface{}) and cinfo.(float64) have no ", ok".
CommElement ==
    /\ commPc = "loop"
    /\ ldata # <<>>
    /\ LET c == Head(ldata) IN
         IF c.t = "list" /\ \A j \in 1..Len(c.v) : c.v[j].t = "number"
            THEN /\ communities' = Append(communities, Community(c.v))
                 /\ ldata' = Tail(ldata)
                 /\ UNCHANGED <<data, commPc, commParsed, parserSide>>
            ELSE CommPanic

\* parseBgpCommunities: return communities
CommReturn ==
    /\ commPc = "loop"
    /\ ldata = <<>>
    /\ commParsed' = [kind |-> "returned", communities |-> communities]
    /\ commPc' = "returned"
    /\ communities' = <<>>
    /\ UNCHANGED <<data, ldata, parserSide>>

\* parseBgpCommunities on any of the shapes of the field.
CommInit ==
    /\ InitStore
    /\ bird = NoPayload
    /\ parsePc = "off"
    /\ parseTodo = {}
    /\ neighbours = <<>>
    /\ parsed = NotParsed
    /\ data \in CommunityData
    /\ commPc = "start"
    /\ ldata = <<>>
    /\ communities = <<>>
    /\ commParsed = NoCommunities

CommNext ==
    \/ CommBegin
    \/ CommElement
    \/ CommReturn

CommSpec == CommInit /\ [][CommNext]_vars

\* -------------------------------------------------------------------- spec

Step(t) ==
    \/ UpdateNext(t)
    \/ SetUpdating(t)
    \/ AllRoutes(t)
    \/ SetError(t)
    \/ SetRoutes(t)
    \/ SetReady(t)
    \/ InitStats(t)
    \/ StatsNext(t)
    \/ StatsStatus(t)
    \/ StatsReturn(t)
    \/ Exit(t)

Next ==
    \/ \E t \in Threads : Start(t)
    \/ \E t \in Threads : StatsCall(t)
    \/ \E t \in Threads : Step(t)
    \/ \E t \in Threads : ApiLookupPrefixGlobal(t)
    \/ MapFault

Spec == Init /\ [][Next]_vars

\* The scheduler runs every goroutine that can take a step; nothing obliges
\* the program's environment to call Start, Stats or the lookup endpoint.
FairSpec == Spec /\ \A t \in Threads : WF_vars(Step(t))

\* ------------------------------------------------------------------ claims

State(s) == statusMap[s].State

\* The transitions of the refresh state machine.
AllowedTransitions ==
    { <<STATE_INIT, STATE_UPDATING>>,
      <<STATE_UPDATING, STATE_READY>>,
      <<STATE_UPDATING, STATE_ERROR>>,
      <<STATE_READY, STATE_UPDATING>>,
      <<STATE_ERROR, STATE_UPDATING>> }

\* C1: a backend's refresh state changes only along INIT->UPDATING,
\* UPDATING->READY, UPDATING->ERROR, READY->UPDATING and ERROR->UPDATING, so
\* its recorded states are INIT followed by (UPDATING, READY or ERROR)
\* repeated, and it never returns to INIT.
C1_StateMachine ==
    [][\A s \in Sources :
         statusMap'[s].State # statusMap[s].State
            => <<statusMap[s].State, statusMap'[s].State>> \in AllowedTransitions]_vars

\* C2: a failed refresh never replaces or clears the cached routes: the
\* routes of a backend change only by the write of a successful fetch's
\* result, the step that makes a backend ERROR leaves its routes as they
\* were, and a backend in ERROR has its error recorded.
C2_StaleServe ==
    /\ [][\A s \in Sources :
            /\ routesMap'[s] # routesMap[s]
                 => \E t \in Threads : /\ pc[t] = "setRoutes"
                                       /\ cur[t] = s
                                       /\ err[t] = NoError
                                       /\ routesMap'[s] = routes[t]
            /\ (statusMap'[s] # statusMap[s] /\ statusMap'[s].State = STATE_ERROR)
                 => routesMap'[s] = routesMap[s]]_vars
    /\ [](\A s \in Sources : State(s) = STATE_ERROR => statusMap[s].LastError # NoError)

\* C2 witness: a backend is in ERROR with its error recorded, still holds
\* the routes of its earlier successful refresh, and a Stats call has
\* returned reporting it as ERROR with those routes' counts.
C2_Witness ==
    \E s \in Sources, t \in Threads :
        /\ State(s) = STATE_ERROR
        /\ statusMap[s].LastError = "timeout"
        /\ routesMap[s] = RouteTable(s)
        /\ pc[t] = "returned"
        /\ \E i \in 1..Len(stats[t].RouteServers) :
             LET e == stats[t].RouteServers[i] IN
               /\ e.Name = configMap[s].Name
               /\ e.State = "ERROR"
               /\ e.Routes.Imported = Len(RouteTable(s).Imported)
               /\ e.Routes.Imported > 0

\* C3: the refresh of one backend leaves the entries of every other backend
\* unchanged, and a failure does not abort the cycle: the loop goes on with
\* the sources it has yet to visit, each visited source is attempted unless
\* it is UPDATING, and update returns only when no source is left.
C3_FailureIsolation ==
    [][/\ \A s \in Sources :
            (statusMap'[s] # statusMap[s] \/ routesMap'[s] # routesMap[s])
               => /\ \E t \in Threads : Writing(t) /\ cur[t] = s /\ pc'[t] # pc[t]
                  /\ \A b \in Sources \ {s} :
                       statusMap'[b] = statusMap[b] /\ routesMap'[b] = routesMap[b]
       /\ \A t \in Threads :
            /\ (pc[t] \in UpdatePcs \ {"loop"}) => todo'[t] = todo[t]
            /\ (pc[t] \in UpdatePcs /\ pc'[t] \notin UpdatePcs) => todo[t] = {}
            /\ pc[t] = "loop"
                 => \A s \in todo[t] \ todo'[t] :
                      \/ State(s) = STATE_UPDATING
                      \/ pc'[t] = "setUpdating" /\ cur'[t] = s]_vars

\* C3 witness: within one cycle (no other call has been made) the fetch of
\* one backend has failed and the refresher is fetching another backend.
C3_Witness ==
    \E t \in Threads, a, b \in Sources :
        /\ a # b
        /\ \A u \in Threads \ {t} : pc[u] = "idle"
        /\ State(a) = STATE_ERROR
        /\ pc[t] = "fetch"
        /\ cur[t] = b
        /\ State(b) = STATE_UPDATING

\* C9: at most one refresh per backend is in flight: AllRoutes is never
\* being called by two goroutines at once for the same backend.
C9_OneRefreshInFlight ==
    \A s \in Sources :
        Cardinality({t \in Threads : pc[t] = "fetch" /\ cur[t] = s}) <= 1

\* C10: accesses of the shared maps are mutually exclusive: no state has a
\* Stats call reading a map while update, in another goroutine, is writing
\* an entry of that map.
C10_MutualExclusion ==
    \A t, u \in Threads :
        ~ /\ t # u
          /\ \/ pc[t] = "statsStatus" /\ pc[u] \in StatusWritePcs
             \/ pc[t] = "statsLoop" /\ pc[u] \in RoutesWritePcs

\* The cached routes of source s whose network is the prefix, as positions
\* <<list, index>> of that source's snapshot.
CachedMatches(s, prefix) ==
    { <<"Imported", i>> : i \in { j \in 1..Len(routesMap[s].Imported) :
                                     routesMap[s].Imported[j].Network = prefix } }
    \cup
    { <<"Filtered", i>> : i \in { j \in 1..Len(routesMap[s].Filtered) :
                                     routesMap[s].Filtered[j].Network = prefix } }

\* A step in which thread t serves a lookup request.
LookupStep(t) == pc[t] = "idle" /\ pc'[t] = "exited"

\* C4: Lookup(prefix) returns every cached route whose network is the
\* prefix, one entry per such route: with two backends cached and exactly
\* one holding 10.0.0.0/24, Lookup("10.0.0.0/24") has exactly one entry; a
\* backend without a snapshot contributes none.
C4_LookupReturnsMatches ==
    [][\A t \in Threads :
         (LookupStep(t) /\ lookup'.kind = "ok")
            => Len(lookup'.Routes) =
                 Cardinality(UNION { {s} \X CachedMatches(s, lookup'.q) : s \in Sources })]_vars

\* C5: the refresh is periodic: a backend that is READY or ERROR eventually
\* becomes UPDATING again (unless the process has ended, or every call the
\* model allows has been made, so that the bound is what ends the run).
C5_PeriodicRefresh ==
    \A s \in Sources :
        (State(s) \in {STATE_READY, STATE_ERROR})
           ~> (State(s) = STATE_UPDATING \/ fatal \/ \A t \in Threads : pc[t] # "idle")

\* The name of a refresh state.
StateName(state) == <<"INIT", "READY", "UPDATING", "ERROR">>[state + 1]

\* The sums of the per-backend counts of a list of summaries.
RECURSIVE SumImported(_)
SumImported(seq) ==
    IF seq = <<>> THEN 0 ELSE Head(seq).Routes.Imported + SumImported(Tail(seq))

RECURSIVE SumFiltered(_)
SumFiltered(seq) ==
    IF seq = <<>> THEN 0 ELSE Head(seq).Routes.Filtered + SumFiltered(Tail(seq))

\* C6: a returned StoreStats has exactly one summary per configured backend,
\* under its configured name and with the name of a refresh state; its
\* totals are the sums of the per-backend counts; and, no entry having been
\* written since the call began, every summary carries the lengths of the
\* backend's cached lists, the name of its state and its last-refresh time.
C6_StatsSummary ==
    \A t \in Threads :
        pc[t] = "returned" =>
          LET rs == stats[t].RouteServers IN
            /\ Len(rs) = Cardinality(Sources)
            /\ \A s \in Sources :
                 Cardinality({i \in 1..Len(rs) : rs[i].Name = configMap[s].Name}) = 1
            /\ \A i \in 1..Len(rs) : rs[i].State \in {"INIT", "READY", "UPDATING", "ERROR"}
            /\ stats[t].TotalRoutes.Imported = SumImported(rs)
            /\ stats[t].TotalRoutes.Filtered = SumFiltered(rs)
            /\ ~dirty[t] =>
                 \A s \in Sources : \E i \in 1..Len(rs) :
                    rs[i] = [Name |-> configMap[s].Name,
                             Routes |-> [Filtered |-> Len(routesMap[s].Filtered),
                                         Imported |-> Len(routesMap[s].Imported)],
                             State |-> StateName(State(s)),
                             UpdatedAt |-> statusMap[s].LastRefresh]

\* C6 witness: Stats has returned, nothing written since it began, with one
\* backend READY holding routes and another in ERROR.
C6_Witness ==
    \E t \in Threads, a, b \in Sources :
        /\ pc[t] = "returned"
        /\ ~dirty[t]
        /\ State(a) = STATE_READY
        /\ routesMap[a] # EmptyRoutesResponse
        /\ State(b) = STATE_ERROR
        /\ stats[t].TotalRoutes.Imported > 0

\* A step of thread t inside Stats or a lookup request, or entering one.
ReadStep(t) ==
    /\ pc'[t] # pc[t]
    /\ \/ InStats(t)
       \/ pc'[t] = "statsLoop"
       \/ LookupStep(t)

\* C7: Stats and Lookup are pure reads: their steps leave the three maps
\* unchanged and put no goroutine into update or a call of a source; and the
\* three maps always hold exactly one entry per configured backend.
C7_PureReads ==
    /\ [][\A t \in Threads :
            ReadStep(t) => /\ UNCHANGED storeVars
                           /\ \A u \in Threads :
                                pc'[u] \in UpdatePcs => pc'[u] = pc[u]]_vars
    /\ [](/\ DOMAIN routesMap = Sources
          /\ DOMAIN statusMap = Sources
          /\ DOMAIN configMap = Sources)

\* C7 witness: a Stats call has run and returned while the refresh of a
\* backend is in flight.
C7_Witness ==
    \E t, u \in Threads :
        /\ pc[t] = "returned"
        /\ pc[u] = "fetch"
        /\ State(cur[u]) = STATE_UPDATING

\* A required field (neighbour address, ASN, state) of some protocol of the
\* payload is absent or mistyped.
RequiredFieldIrregular ==
    \E i \in DOMAIN bird.protocols.v :
       LET p == bird.protocols.v[i] IN
         \/ p.neighbor_address.t # "string"
         \/ p.neighbor_as.t # "number"
         \/ p.state.t # "string"

\* The payload's only irregularity, if any, is a missing last_error.
OnlyLastErrorMissing ==
    \A i \in DOMAIN bird.protocols.v :
       bird.protocols.v[i] \in { WellFormedProtocol(i),
                                 [WellFormedProtocol(i) EXCEPT !.last_error = Absent] }

\* C8: on a payload that carries its protocols, parseNeighbours never ends
\* in a panic; with a required field (neighbour address, ASN, state) absent
\* or mistyped it returns an error and no neighbours; and with no
\* irregularity but a missing last_error it returns every neighbour, the
\* LastError of those without one being "".
C8_RequiredFieldError ==
    (bird.protocols.t = "map" /\ parsePc \in {"returned", "panicked"}) =>
      /\ RequiredFieldIrregular =>
           /\ parsePc # "panicked"
           /\ parsed.err # NoError
           /\ parsed.neighbours = <<>>
      /\ OnlyLastErrorMissing =>
           /\ parsePc # "panicked"
           /\ parsed.err = NoError
           /\ Len(parsed.neighbours) = Cardinality(DOMAIN bird.protocols.v)
           /\ \A k \in 1..Len(parsed.neighbours) :
                bird.protocols.v[parsed.neighbours[k].Id].last_error.t = "absent"
                   => parsed.neighbours[k].LastError = ""

\* C11: once a backend has been refreshed successfully (it is READY, its
\* LastRefresh being the time of that refresh), a later refresh attempt that
\* takes it to UPDATING or to ERROR leaves its LastRefresh as it was.
C11_LastRefreshKept ==
    [][\A s \in Sources :
          (State(s) = STATE_READY
             /\ statusMap'[s].State \in {STATE_UPDATING, STATE_ERROR})
          => statusMap'[s].LastRefresh = statusMap[s].LastRefresh]_vars

\* A list of lists of whole numbers.
WellFormedCommunities ==
    /\ data.t = "list"
    /\ \A i \in 1..Len(data.v) :
         /\ data.v[i].t = "list"
         /\ \A j \in 1..Len(data.v[i].v) :
              data.v[i].v[j].t = "number" /\ data.v[i].v[j].n % 10 = 0

\* The communities of a well-formed field, as written in it.
WrittenCommunities ==
    [i \in 1..Len(data.v) |->
       [j \in 1..Len(data.v[i].v) |-> data.v[i].v[j].n \div 10]]

\* The field is absent, is not a list, or is a list with an element that is
\* not a list of numbers.
WronglyShaped ==
    \/ data.t # "list"
    \/ \E i \in 1..Len(data.v) :
         \/ data.v[i].t # "list"
         \/ \E j \in 1..Len(data.v[i].v) : data.v[i].v[j].t # "number"

\* C12: decoding a communities field never ends in a panic; a field that is
\* absent or wrongly shaped yields the empty set, and a well-formed list of
\* integer lists yields the same communities in the same order.
C12_CommunitiesNeverFail ==
    (commPc \in {"returned", "panicked"}) =>
      /\ commPc # "panicked"
      /\ WronglyShaped => commParsed.communities = <<>>
      /\ WellFormedCommunities => commParsed.communities = WrittenCommunities

====
